---- MODULE Spec2Model ----
(***************************************************************************)
(* A model of src/App.tsx: the App component of a browser voice assistant. *)
(* The state is the component's React state (connectionState, logs,        *)
(* volume, textInput) and its refs; the actions are its event handlers and *)
(* the callbacks it hands to the live session, the audio nodes and the     *)
(* file reader.  An async handler is one action per stretch of code        *)
(* between two awaits.                                                     *)
(*                                                                         *)
(* Objects are named by the number of the handleConnect call that created  *)
(* them: 0 is null, k is "the context / stream / node / session made by    *)
(* the k-th handleConnect".                                                *)
(***************************************************************************)
EXTENDS Integers, Sequences, FiniteSets

\* ------------------------------------------------------------------ bounds
MaxSess == 2      \* handleConnect calls in one run
MaxLog == 5       \* log entries in one run
MaxTime == 1      \* the output context's clock stops here
MaxMedia == 2     \* media inputs in one run: frames, audio messages, image files

Sessions == 1..MaxSess
Durations == {1, 2}                       \* audioBuffer.duration, in clock ticks
RmsValues == {0, 100}                     \* rms of a frame, in hundredths (0.0, 1.0)
TextInputs == {<<>>, <<" ">>, <<" ", "a", " ">>}   \* what the user can type

VARIABLES
  connectionState,        \* useState, App.tsx:17
  logs,                   \* useState, App.tsx:18
  volume,                 \* useState, App.tsx:19, in hundredths
  textInput,              \* useState, App.tsx:20, a sequence of characters
  inputAudioContextRef,   \* App.tsx:23
  outputAudioContextRef,  \* App.tsx:24
  mediaStreamRef,         \* App.tsx:25
  scriptProcessorRef,     \* App.tsx:26
  outputNodeRef,          \* App.tsx:27
  nextStartTimeRef,       \* App.tsx:28
  sourcesRef,             \* App.tsx:29, a set of indices into srcs
  sessionRef,             \* App.tsx:30
  nconn,                  \* number of handleConnect calls so far
  hc,                     \* hc[k]: where the k-th handleConnect is suspended
  promise,                \* promise[k]: state of the k-th sessionPromise
  ws,                     \* ws[k]: state of the k-th session's connection
  tap,                    \* sessions whose capture pipeline onopen has wired
  thenQ,                  \* thenQ[k]: frames waiting on sessionPromise.then
  sent,                   \* sent[k]: calls of session k's sendRealtimeInput
  captured,               \* captured[k]: frames onaudioprocess of k was given
  nframes,                \* number of frames captured so far
  now,                    \* currentTime of the open output context
  srcs,                   \* every AudioBufferSourceNode created, in start order
  pend,                   \* onmessage handlers suspended at decodeAudioData
  readers,                \* FileReaders reading an image
  nreads                  \* number of image reads begun so far

vars == <<connectionState, logs, volume, textInput, inputAudioContextRef,
          outputAudioContextRef, mediaStreamRef, scriptProcessorRef,
          outputNodeRef, nextStartTimeRef, sourcesRef, sessionRef, nconn, hc,
          promise, ws, tap, thenQ, sent, captured, nframes, now, srcs, pend,
          readers, nreads>>

uiVars == <<volume, textInput>>
refVars == <<inputAudioContextRef, outputAudioContextRef, mediaStreamRef,
             scriptProcessorRef, outputNodeRef, sessionRef>>
playVars == <<nextStartTimeRef, sourcesRef, srcs>>
connVars == <<nconn, hc, promise, ws>>
micVars == <<tap, thenQ, sent, captured, nframes>>
imgVars == <<readers, nreads>>

\* ----------------------------------------------------------------- helpers
\* The media inputs taken so far.
MediaUsed == nframes + Len(srcs) + Len(pend) + nreads

Max(a, b) == IF a >= b THEN a ELSE b

ConnectionStates == {"DISCONNECTED", "CONNECTING", "CONNECTED", "ERROR"}

\* A server message: audio = 0 is "no inline audio", otherwise the duration
\* of the buffer it decodes to.
Messages == [audio : {0} \cup Durations, tc : BOOLEAN, intr : BOOLEAN]

\* addLog: the entry goes at the end of the previous log.
AddLogPrepend(l, type, text) == <<[type |-> type, text |-> text]>> \o l
AddLog(l, type, text) == Append(l, [type |-> type, text |-> text])

\* String.prototype.trim on a sequence of characters.
RECURSIVE TrimLeft(_)
TrimLeft(s) == IF s # <<>> /\ Head(s) = " " THEN TrimLeft(Tail(s)) ELSE s
RECURSIVE TrimRight(_)
TrimRight(s) ==
  IF s # <<>> /\ s[Len(s)] = " " THEN TrimRight(SubSeq(s, 1, Len(s) - 1)) ELSE s
TrimNothing(s) == s
TrimStart(s) == TrimLeft(s)
Trim(s) == TrimRight(TrimLeft(s))

\* source.stop() on every source of the set; all sources created so far now
\* lie before a reset of the schedule.
StopAll(ss, set) ==
  [i \in DOMAIN ss |->
     [ss[i] EXCEPT !.st = IF i \in set THEN "stopped" ELSE @, !.reset = TRUE]]

\* The end time of the buffer scheduled last, 0 when none was scheduled
\* since the last reset.
HasPrev(ss) == Len(ss) > 0 /\ ~ss[Len(ss)].reset
PrevEnd(ss) == IF HasPrev(ss) THEN ss[Len(ss)].start + ss[Len(ss)].dur ELSE 0

\* The playback schedule as one value: p.srcs, p.set (sourcesRef.current),
\* p.nst (nextStartTimeRef.current).
Playback == [srcs |-> srcs, set |-> sourcesRef, nst |-> nextStartTimeRef]

\* "Sync start time": nextStartTime = max(nextStartTime, ctx.currentTime).
SyncStart(nst, t) == Max(nst, t)

\* createBufferSource .. sourcesRef.add: the buffer starts at the scalar,
\* the scalar moves to its end, the source joins the in-flight set.
ScheduleNoAdvance(p, dur, t, stale) ==
  LET s == [start |-> p.nst, dur |-> dur, at |-> t, st |-> "playing",
            reset |-> FALSE, stale |-> stale, chain |-> HasPrev(p.srcs)]
  IN [srcs |-> Append(p.srcs, s), set |-> p.set \cup {Len(p.srcs) + 1},
      nst |-> p.nst]
ScheduleNoAdd(p, dur, t, stale) ==
  LET s == [start |-> p.nst, dur |-> dur, at |-> t, st |-> "playing",
            reset |-> FALSE, stale |-> stale, chain |-> HasPrev(p.srcs)]
  IN [srcs |-> Append(p.srcs, s), set |-> p.set, nst |-> p.nst + dur]
Schedule(p, dur, t, stale) ==
  LET s == [start |-> p.nst, dur |-> dur, at |-> t, st |-> "playing",
            reset |-> FALSE, stale |-> stale, chain |-> HasPrev(p.srcs)]
  IN [srcs |-> Append(p.srcs, s), set |-> p.set \cup {Len(p.srcs) + 1},
      nst |-> p.nst + dur]

\* "Handle Interruption": stop every in-flight source, clear the set, reset
\* the scalar.
InterruptNoClear(p) == [srcs |-> StopAll(p.srcs, p.set), set |-> p.set, nst |-> 0]
Interrupt(p) == [srcs |-> StopAll(p.srcs, p.set), set |-> {}, nst |-> 0]

\* The handlers suspended at decodeAudioData when an interruption is handled
\* belong to messages that arrived before it; the interruption now lies
\* between them and every buffer started so far.
MarkStale(q) ==
  [i \in DOMAIN q |-> [q[i] EXCEPT !.stale = TRUE, !.over = 0]]

\* The handlers that were suspended before handler i and are still suspended
\* when handler i starts its buffer, source n: their messages arrived first
\* (onmessage is called once per message, in arrival order) and their
\* buffers will be started after n.  Each remembers the first such source
\* since the last interruption.
Overtake(q, i, n) ==
  [j \in DOMAIN q |->
     IF j < i /\ q[j].over = 0 THEN [q[j] EXCEPT !.over = n] ELSE q[j]]

\* onmessage never calls setConnectionState.
StateAfterMessageEnds(cs, m) == IF m.tc THEN "DISCONNECTED" ELSE cs
StateAfterMessage(cs, m) == cs

\* The number of entries the tail of onmessage logs for message m.
MsgLogs(m) == (IF m.tc THEN 1 ELSE 0) + (IF m.intr THEN 1 ELSE 0)

\* ------------------------------------------------------------------- Init
Init ==
  /\ connectionState = "DISCONNECTED"
  /\ logs = <<>>
  /\ volume = 0
  /\ textInput = <<>>
  /\ inputAudioContextRef = 0
  /\ outputAudioContextRef = 0
  /\ mediaStreamRef = 0
  /\ scriptProcessorRef = 0
  /\ outputNodeRef = 0
  /\ nextStartTimeRef = 0
  /\ sourcesRef = {}
  /\ sessionRef = 0
  /\ nconn = 0
  /\ hc = [k \in Sessions |-> "idle"]
  /\ promise = [k \in Sessions |-> "none"]
  /\ ws = [k \in Sessions |-> "none"]
  /\ tap = {}
  /\ thenQ = [k \in Sessions |-> <<>>]
  /\ sent = [k \in Sessions |-> <<>>]
  /\ captured = [k \in Sessions |-> <<>>]
  /\ nframes = 0
  /\ now = 0
  /\ srcs = <<>>
  /\ pend = <<>>
  /\ readers = 0
  /\ nreads = 0

\* ---------------------------------------------------------------- cleanup
\* cleanup(): drop the session, stop the microphone, close both contexts,
\* stop and forget the playing sources, reset the refs and the inputs.  It
\* touches neither connectionState nor logs.
CleanupKeepsSources ==
  /\ sessionRef' = 0
  /\ mediaStreamRef' = 0
  /\ inputAudioContextRef' = 0
  /\ outputAudioContextRef' = 0
  /\ srcs' = srcs
  /\ sourcesRef' = sourcesRef
  /\ scriptProcessorRef' = 0
  /\ outputNodeRef' = 0
  /\ nextStartTimeRef' = nextStartTimeRef
  /\ volume' = 0
  /\ textInput' = <<>>
CleanupKeepsNode ==
  /\ sessionRef' = 0
  /\ mediaStreamRef' = 0
  /\ inputAudioContextRef' = 0
  /\ outputAudioContextRef' = 0
  /\ srcs' = StopAll(srcs, sourcesRef)
  /\ sourcesRef' = {}
  /\ scriptProcessorRef' = 0
  /\ outputNodeRef' = outputNodeRef
  /\ nextStartTimeRef' = 0
  /\ volume' = 0
  /\ textInput' = <<>>
Cleanup ==
  /\ sessionRef' = 0
  /\ mediaStreamRef' = 0
  /\ inputAudioContextRef' = 0
  /\ outputAudioContextRef' = 0
  /\ srcs' = StopAll(srcs, sourcesRef)
  /\ sourcesRef' = {}
  /\ scriptProcessorRef' = 0
  /\ outputNodeRef' = 0
  /\ nextStartTimeRef' = 0
  /\ volume' = 0
  /\ textInput' = <<>>

\* ----------------------------------------------------------- handleConnect
\* The "Byrja samtal" button, offered while DISCONNECTED or ERROR: up to the
\* await on getUserMedia.  The new output context's clock starts at 0.
HandleConnect ==
  /\ connectionState \in {"DISCONNECTED", "ERROR"}
  /\ nconn < MaxSess
  /\ Len(logs) < MaxLog
  /\ connectionState' = "CONNECTING"
  /\ logs' = AddLog(logs, "system", <<"Frumstilli">>)
  /\ nconn' = nconn + 1
  /\ inputAudioContextRef' = nconn + 1
  /\ outputAudioContextRef' = nconn + 1
  /\ outputNodeRef' = nconn + 1
  /\ now' = 0
  /\ hc' = [hc EXCEPT ![nconn + 1] = "awaitMedia"]
  /\ UNCHANGED <<uiVars, mediaStreamRef, scriptProcessorRef, sessionRef,
                 playVars, promise, ws, micVars, pend, imgVars>>

\* getUserMedia resolves: keep the stream, log, call ai.live.connect, and
\* suspend at "await sessionPromise".
MediaResolved(k) ==
  /\ hc[k] = "awaitMedia"
  /\ Len(logs) < MaxLog
  /\ mediaStreamRef' = k
  /\ logs' = AddLog(logs, "system", <<"Tengist">>)
  /\ promise' = [promise EXCEPT ![k] = "pending"]
  /\ ws' = [ws EXCEPT ![k] = "connecting"]
  /\ hc' = [hc EXCEPT ![k] = "awaitSession"]
  /\ UNCHANGED <<connectionState, uiVars, inputAudioContextRef,
                 outputAudioContextRef, scriptProcessorRef, outputNodeRef,
                 sessionRef, playVars, nconn, micVars, now, pend, imgVars>>

\* The catch branch: log, ERROR, cleanup.
CatchBranchKeepsState(k) ==
  /\ Len(logs) < MaxLog
  /\ logs' = AddLog(logs, "system", <<"TengingMistokst">>)
  /\ connectionState' = connectionState
  /\ Cleanup
  /\ hc' = [hc EXCEPT ![k] = "done"]
  /\ UNCHANGED <<nconn, ws, micVars, now, pend, imgVars>>
CatchBranch(k) ==
  /\ Len(logs) < MaxLog
  /\ logs' = AddLog(logs, "system", <<"TengingMistokst">>)
  /\ connectionState' = "ERROR"
  /\ Cleanup
  /\ hc' = [hc EXCEPT ![k] = "done"]
  /\ UNCHANGED <<nconn, ws, micVars, now, pend, imgVars>>

\* getUserMedia rejects (microphone refused).
MediaRejected(k) ==
  /\ hc[k] = "awaitMedia"
  /\ CatchBranch(k)
  /\ UNCHANGED promise

\* ai.live.connect rejects.  Callbacks queued on sessionPromise.then never run.
SessionRejected(k) ==
  /\ hc[k] = "awaitSession"
  /\ promise[k] = "pending"
  /\ promise' = [promise EXCEPT ![k] = "rejected"]
  /\ CatchBranch(k)

\* The frames sessionPromise.then hands to the session once it resolves: in
\* the order in which the callbacks were registered.
Drain(q) == q

AudioItem(f) == [kind |-> "audio", frame |-> f, text |-> <<>>]
TextItem(t) == [kind |-> "text", frame |-> 0, text |-> t]
ImageItem == [kind |-> "image", frame |-> 0, text |-> <<>>]

\* sessionPromise resolves: "sessionRef.current = await sessionPromise", then
\* the then-callbacks registered by onaudioprocess, in one microtask run.
SessionResolved(k) ==
  /\ hc[k] = "awaitSession"
  /\ promise[k] = "pending"
  /\ promise' = [promise EXCEPT ![k] = "resolved"]
  /\ sessionRef' = k
  /\ hc' = [hc EXCEPT ![k] = "done"]
  /\ sent' = [sent EXCEPT ![k] =
                @ \o [i \in 1..Len(thenQ[k]) |-> AudioItem(Drain(thenQ[k])[i])]]
  /\ thenQ' = [thenQ EXCEPT ![k] = <<>>]
  /\ UNCHANGED <<connectionState, logs, uiVars, inputAudioContextRef,
                 outputAudioContextRef, mediaStreamRef, scriptProcessorRef,
                 outputNodeRef, playVars, nconn, ws, tap, captured, nframes,
                 now, pend, imgVars>>

\* ------------------------------------------------------- session callbacks
\* onopen: log, CONNECTED, wire the capture pipeline on the input context and
\* stream of its own handleConnect.  On a context that cleanup has closed,
\* createMediaStreamSource either throws (nothing after it runs) or makes a
\* node that never processes: both are taken.
OnOpen(k, throws) ==
  /\ ws[k] = "connecting"
  /\ Len(logs) < MaxLog
  /\ throws => inputAudioContextRef # k
  /\ ws' = [ws EXCEPT ![k] = "open"]
  /\ logs' = AddLog(logs, "system", <<"TengingKomin">>)
  /\ connectionState' = "CONNECTED"
  /\ scriptProcessorRef' = IF throws THEN scriptProcessorRef ELSE k
  /\ tap' = IF inputAudioContextRef = k THEN tap \cup {k} ELSE tap
  /\ UNCHANGED <<uiVars, inputAudioContextRef, outputAudioContextRef,
                 mediaStreamRef, outputNodeRef, sessionRef, playVars, nconn,
                 hc, promise, thenQ, sent, captured, nframes, now, pend,
                 imgVars>>

\* The volume meter: setVolume(v => Math.max(rms * 5, v * 0.9)), in hundredths.
Meter(v, rms) == Max(rms * 5, (v * 9) \div 10)

\* What onaudioprocess does with the frame: sessionPromise.then(send).  A
\* resolved promise runs the callback in the same microtask run, a pending
\* one queues it, a rejected one never runs it.
SendNow(st, q, f) == IF st = "rejected" THEN q ELSE Append(q, AudioItem(f))
SendWhenReady(st, q, f) == IF st = "resolved" THEN Append(q, AudioItem(f)) ELSE q

\* processor.onaudioprocess of session k: fires while its input context runs.
OnAudioProcess(k, rms) ==
  /\ k \in tap
  /\ inputAudioContextRef = k
  /\ MediaUsed < MaxMedia
  /\ nframes' = nframes + 1
  /\ volume' = Meter(volume, rms)
  /\ captured' = [captured EXCEPT ![k] = Append(@, nframes + 1)]
  /\ sent' = [sent EXCEPT ![k] = SendWhenReady(promise[k], @, nframes + 1)]
  /\ thenQ' = [thenQ EXCEPT ![k] =
                 IF promise[k] = "pending" THEN Append(@, nframes + 1) ELSE @]
  /\ UNCHANGED <<connectionState, logs, textInput, refVars, playVars,
                 connVars, tap, now, pend, imgVars>>

\* The part of onmessage after the audio block: turnComplete, interrupted.
MsgTailTurnInterrupts(m, p, vol, q) ==
  LET p2 == IF m.intr \/ m.tc THEN Interrupt(p) ELSE p
      l1 == IF m.tc THEN AddLog(logs, "system", <<"SvariLokid">>) ELSE logs
  IN /\ logs' = IF m.intr THEN AddLog(l1, "system", <<"GripidFramI">>) ELSE l1
     /\ volume' = IF m.tc THEN 0 ELSE vol
     /\ srcs' = p2.srcs
     /\ sourcesRef' = p2.set
     /\ nextStartTimeRef' = p2.nst
     /\ pend' = IF m.intr THEN MarkStale(q) ELSE q
     /\ connectionState' = StateAfterMessage(connectionState, m)
MsgTail(m, p, vol, q) ==
  LET p2 == IF m.intr THEN Interrupt(p) ELSE p
      l1 == IF m.tc THEN AddLog(logs, "system", <<"SvariLokid">>) ELSE logs
  IN /\ logs' = IF m.intr THEN AddLog(l1, "system", <<"GripidFramI">>) ELSE l1
     /\ volume' = IF m.tc THEN 0 ELSE vol
     /\ srcs' = p2.srcs
     /\ sourcesRef' = p2.set
     /\ nextStartTimeRef' = p2.nst
     /\ pend' = IF m.intr THEN MarkStale(q) ELSE q
     /\ connectionState' = StateAfterMessage(connectionState, m)

\* "if (base64Audio && outputAudioContextRef.current && outputNodeRef.current)"
AudioBlockUnguarded(m) == m.audio # 0
AudioBlock(m) == m.audio # 0 /\ outputAudioContextRef # 0 /\ outputNodeRef # 0

\* onmessage, a message with audio while the output context and node are
\* held: sync the start time and suspend at "await decodeAudioData".
OnMessageAudio(k, m) ==
  /\ ws[k] = "open"
  /\ AudioBlock(m)
  /\ MediaUsed < MaxMedia
  /\ Len(logs) + MsgLogs(m) <= MaxLog
  /\ nextStartTimeRef' = SyncStart(nextStartTimeRef, now)
  /\ pend' = Append(pend, [ctx |-> outputAudioContextRef, m |-> m,
                           stale |-> FALSE, over |-> 0])
  /\ UNCHANGED <<connectionState, logs, uiVars, refVars, sourcesRef, srcs,
                 connVars, micVars, now, imgVars>>

\* onmessage, no audio block (no audio in the message, or no output context
\* or node): the handler runs to its end at once.
OnMessagePlain(k, m) ==
  /\ ws[k] = "open"
  /\ ~AudioBlock(m)
  /\ Len(logs) + MsgLogs(m) <= MaxLog
  /\ MsgTail(m, Playback, volume, pend)
  /\ UNCHANGED <<textInput, refVars, connVars, micVars, now, imgVars>>

Remove(q, i) == [j \in 1..(Len(q) - 1) |-> IF j < i THEN q[j] ELSE q[j + 1]]

\* decodeAudioData resolves and the handler goes on with the node that
\* outputNodeRef holds now and the context it read before the await.
\* source.connect throws when outputNodeRef is null or a node of another
\* context; the handler then ends there.
DecodeThrows(i) ==
  /\ i \in DOMAIN pend
  /\ outputNodeRef # pend[i].ctx
  /\ pend' = Remove(pend, i)
  /\ UNCHANGED <<connectionState, logs, uiVars, refVars, playVars, connVars,
                 micVars, now, imgVars>>

DecodeDone(i) ==
  /\ i \in DOMAIN pend
  /\ outputNodeRef = pend[i].ctx
  /\ Len(logs) + MsgLogs(pend[i].m) <= MaxLog
  /\ MsgTail(pend[i].m,
             Schedule(Playback, pend[i].m.audio, now, pend[i].stale),
             50, Remove(Overtake(pend, i, Len(srcs) + 1), i))
  /\ UNCHANGED <<textInput, refVars, connVars, micVars, now, imgVars>>

\* onclose: log, DISCONNECTED, cleanup.
OnClose(k) ==
  /\ ws[k] \in {"connecting", "open"}
  /\ Len(logs) < MaxLog
  /\ ws' = [ws EXCEPT ![k] = "closed"]
  /\ logs' = AddLog(logs, "system", <<"TenginguLokad">>)
  /\ connectionState' = "DISCONNECTED"
  /\ Cleanup
  /\ UNCHANGED <<nconn, hc, promise, micVars, now, pend, imgVars>>

\* onerror: log, ERROR, cleanup.
OnError(k) ==
  /\ ws[k] \in {"connecting", "open"}
  /\ Len(logs) < MaxLog
  /\ logs' = AddLog(logs, "system", <<"Villa">>)
  /\ connectionState' = "ERROR"
  /\ Cleanup
  /\ UNCHANGED <<connVars, micVars, now, pend, imgVars>>

\* -------------------------------------------------------------- user input
\* The red button, offered while CONNECTING or CONNECTED.
HandleDisconnect ==
  /\ connectionState \in {"CONNECTING", "CONNECTED"}
  /\ Len(logs) < MaxLog
  /\ Cleanup
  /\ connectionState' = "DISCONNECTED"
  /\ logs' = AddLog(logs, "system", <<"NotandiEndadi">>)
  /\ UNCHANGED <<connVars, micVars, now, pend, imgVars>>

\* onChange of the text field, rendered while CONNECTED.
SetTextInput(t) ==
  /\ connectionState = "CONNECTED"
  /\ t # textInput
  /\ textInput' = t
  /\ UNCHANGED <<connectionState, logs, volume, refVars, playVars, connVars,
                 micVars, now, pend, imgVars>>

\* handleSendText (the send button or Enter in the text field).
HandleSendText ==
  /\ connectionState = "CONNECTED"
  /\ IF Trim(textInput) = <<>> \/ sessionRef = 0
       THEN UNCHANGED <<logs, textInput, sent>>
       ELSE /\ Len(logs) < MaxLog
            /\ logs' = AddLog(logs, "user", Trim(textInput))
            /\ sent' = [sent EXCEPT ![sessionRef] =
                          Append(@, TextItem(Trim(textInput)))]
            /\ textInput' = <<>>
  /\ UNCHANGED <<connectionState, volume, refVars, playVars, connVars, tap,
                 thenQ, captured, nframes, now, pend, imgVars>>

\* handleImageUpload with a file chosen, the file input being rendered while
\* CONNECTING or CONNECTED: log and start the FileReader.
HandleImageUpload ==
  /\ connectionState \in {"CONNECTING", "CONNECTED"}
  /\ sessionRef # 0
  /\ MediaUsed < MaxMedia
  /\ Len(logs) < MaxLog
  /\ logs' = AddLog(logs, "system", <<"SendiMynd">>)
  /\ readers' = readers + 1
  /\ nreads' = nreads + 1
  /\ UNCHANGED <<connectionState, uiVars, refVars, playVars, connVars,
                 micVars, now, pend>>

\* reader.onload: sessionRef.current.sendRealtimeInput(...) and a log entry;
\* with sessionRef.current null the call throws and onload ends there.
ReaderOnload ==
  /\ readers > 0
  /\ readers' = readers - 1
  /\ IF sessionRef = 0
       THEN UNCHANGED <<logs, sent>>
       ELSE /\ Len(logs) < MaxLog
            /\ sent' = [sent EXCEPT ![sessionRef] = Append(@, ImageItem)]
            /\ logs' = AddLog(logs, "user", <<"SendiMyndTilGreiningar">>)
  /\ UNCHANGED <<connectionState, uiVars, refVars, playVars, connVars, tap,
                 thenQ, captured, nframes, now, pend, nreads>>

\* ------------------------------------------------------------ audio clock
\* The open output context's currentTime advances.
Tick ==
  /\ outputAudioContextRef # 0
  /\ now < MaxTime
  /\ now' = now + 1
  /\ UNCHANGED <<connectionState, logs, uiVars, refVars, playVars, connVars,
                 micVars, pend, imgVars>>

\* The 'ended' listener of source i: sourcesRef.current.delete(source).  The
\* event fires when the buffer has played to its end or after stop(); after
\* stop() the source has left the set already.
OnEnded(i) ==
  /\ i \in DOMAIN srcs
  /\ \/ srcs[i].st = "stopped"
     \/ /\ srcs[i].st = "playing"
        /\ now >= Max(srcs[i].start, srcs[i].at) + srcs[i].dur
  /\ srcs' = [srcs EXCEPT ![i].st = IF @ = "playing" THEN "ended" ELSE @]
  /\ sourcesRef' = sourcesRef \ {i}
  /\ UNCHANGED <<connectionState, logs, uiVars, refVars, nextStartTimeRef,
                 connVars, micVars, now, pend, imgVars>>

\* ------------------------------------------------------------------- Next
Next ==
  \/ HandleConnect
  \/ \E k \in Sessions : MediaResolved(k)
  \/ \E k \in Sessions : MediaRejected(k)
  \/ \E k \in Sessions : SessionResolved(k)
  \/ \E k \in Sessions : SessionRejected(k)
  \/ \E k \in Sessions, throws \in BOOLEAN : OnOpen(k, throws)
  \/ \E k \in Sessions, rms \in RmsValues : OnAudioProcess(k, rms)
  \/ \E k \in Sessions, m \in Messages : OnMessageAudio(k, m)
  \/ \E k \in Sessions, m \in Messages : OnMessagePlain(k, m)
  \/ \E i \in 1..MaxMedia : DecodeDone(i)
  \/ \E i \in 1..MaxMedia : DecodeThrows(i)
  \/ \E k \in Sessions : OnClose(k)
  \/ \E k \in Sessions : OnError(k)
  \/ HandleDisconnect
  \/ \E t \in TextInputs : SetTextInput(t)
  \/ HandleSendText
  \/ HandleImageUpload
  \/ ReaderOnload
  \/ Tick
  \/ \E i \in 1..MaxMedia : OnEnded(i)

Spec == Init /\ [][Next]_vars

\* The playback side alone: connecting, the session's messages, the audio
\* clock and teardown, with no microphone frame, text or image input and a
\* sessionPromise that stays pending.
NextPlayback ==
  \/ HandleConnect
  \/ \E k \in Sessions : MediaResolved(k)
  \/ \E k \in Sessions, throws \in BOOLEAN : OnOpen(k, throws)
  \/ \E k \in Sessions, m \in Messages : OnMessageAudio(k, m)
  \/ \E k \in Sessions, m \in Messages : OnMessagePlain(k, m)
  \/ \E i \in 1..MaxMedia : DecodeDone(i)
  \/ \E i \in 1..MaxMedia : DecodeThrows(i)
  \/ \E k \in Sessions : OnClose(k)
  \/ \E k \in Sessions : OnError(k)
  \/ HandleDisconnect
  \/ Tick
  \/ \E i \in 1..MaxMedia : OnEnded(i)

SpecPlayback == Init /\ [][NextPlayback]_vars

\* The capture side alone: connecting, the sessionPromise, the microphone
\* frames and teardown, with no server message, text or image input.
NextCapture ==
  \/ HandleConnect
  \/ \E k \in Sessions : MediaResolved(k)
  \/ \E k \in Sessions : MediaRejected(k)
  \/ \E k \in Sessions : SessionResolved(k)
  \/ \E k \in Sessions : SessionRejected(k)
  \/ \E k \in Sessions, throws \in BOOLEAN : OnOpen(k, throws)
  \/ \E k \in Sessions, rms \in RmsValues : OnAudioProcess(k, rms)
  \/ \E k \in Sessions : OnClose(k)
  \/ \E k \in Sessions : OnError(k)
  \/ HandleDisconnect

SpecCapture == Init /\ [][NextCapture]_vars

\* The user's text and image input alone: connecting, the sessionPromise,
\* the text field, the file input and teardown, with no microphone frame and
\* no server message.
NextInput ==
  \/ HandleConnect
  \/ \E k \in Sessions : MediaResolved(k)
  \/ \E k \in Sessions : SessionResolved(k)
  \/ \E k \in Sessions, throws \in BOOLEAN : OnOpen(k, throws)
  \/ \E k \in Sessions : OnClose(k)
  \/ \E k \in Sessions : OnError(k)
  \/ HandleDisconnect
  \/ \E t \in TextInputs : SetTextInput(t)
  \/ HandleSendText
  \/ HandleImageUpload
  \/ ReaderOnload

SpecInput == Init /\ [][NextInput]_vars

\* The connection lifecycle alone, with the browser and the live API doing
\* their part: every getUserMedia request is settled, every ai.live.connect
\* promise is settled, and every session that was created delivers a first
\* callback (onopen, onclose or onerror).
MicSettles(k) == MediaResolved(k) \/ MediaRejected(k)
ConnectSettles(k) == SessionResolved(k) \/ SessionRejected(k)
FirstCallback(k) ==
  /\ ws[k] = "connecting"
  /\ \/ \E throws \in BOOLEAN : OnOpen(k, throws)
     \/ OnClose(k)
     \/ OnError(k)

NextLifecycle ==
  \/ HandleConnect
  \/ \E k \in Sessions : MediaResolved(k)
  \/ \E k \in Sessions : MediaRejected(k)
  \/ \E k \in Sessions : SessionResolved(k)
  \/ \E k \in Sessions : SessionRejected(k)
  \/ \E k \in Sessions, throws \in BOOLEAN : OnOpen(k, throws)
  \/ \E k \in Sessions : OnClose(k)
  \/ \E k \in Sessions : OnError(k)
  \/ HandleDisconnect

SpecLifecycle ==
  /\ Init
  /\ [][NextLifecycle]_vars
  /\ \A k \in Sessions :
       /\ WF_vars(MicSettles(k))
       /\ WF_vars(ConnectSettles(k))
       /\ WF_vars(FirstCallback(k))

\* ---------------------------------------------------------------- claims
IsPrefix(a, b) == Len(a) <= Len(b) /\ SubSeq(b, 1, Len(a)) = a
LastText(l) == IF l = <<>> THEN <<>> ELSE l[Len(l)].text
Texts(l) == {l[i].text : i \in DOMAIN l}
TeardownTexts ==
  {<<"TenginguLokad">>, <<"Villa">>, <<"TengingMistokst">>, <<"NotandiEndadi">>}
EndOf(s) == s.start + s.dur
AudioFrames(q) ==
  LET a == SelectSeq(q, LAMBDA x : x.kind = "audio")
  IN [i \in 1..Len(a) |-> a[i].frame]
Changed == connectionState' # connectionState

\* C1: whenever onmessage schedules a decoded buffer, the start time given
\* to source.start is max(currentTime at the call, end of the buffer
\* scheduled before it, or 0 when none was scheduled since the last reset),
\* and right after scheduling the scalar is that start time plus the
\* buffer's duration.
C1_StartIsMaxNowPrevEnd ==
  [][\A i \in DOMAIN pend :
       DecodeDone(i) =>
         LET s == srcs'[Len(srcs')]
         IN /\ s.start = Max(now, PrevEnd(srcs))
            /\ ~pend[i].m.intr => nextStartTimeRef' = s.start + s.dur]_vars

\* C2: of two buffers scheduled one after the other with no interruption or
\* teardown in between, the first not yet at its end time when the second is
\* scheduled, the second starts exactly at the first's end time
\* (start + duration).
C2_BackToBack ==
  \A i \in DOMAIN srcs :
    (i > 1 /\ srcs[i].chain /\ srcs[i].at < EndOf(srcs[i - 1]))
      => srcs[i].start = EndOf(srcs[i - 1])

C2_Witness ==
  \E i \in DOMAIN srcs :
    /\ i > 1 /\ srcs[i].chain /\ srcs[i].at < EndOf(srcs[i - 1])
    /\ srcs[i].start = EndOf(srcs[i - 1])
    /\ srcs[i].at > 0

\* C3: when the onmessage handler of a message with the interrupted flag
\* runs to its end, with or without audio in the message, every source that
\* was in the in-flight set is stopped (none is left playing), the set is
\* empty and the next-start-time scalar is 0.
C3_InterruptStopsAll ==
  [][(\/ \E k \in Sessions, m \in Messages : m.intr /\ OnMessagePlain(k, m)
      \/ \E i \in DOMAIN pend : pend[i].m.intr /\ DecodeDone(i))
     => /\ sourcesRef' = {}
        /\ nextStartTimeRef' = 0
        /\ \A j \in sourcesRef : srcs'[j].st = "stopped"
        /\ \A j \in DOMAIN srcs' : srcs'[j].st # "playing"]_vars

C3_Witness ==
  /\ LastText(logs) = <<"GripidFramI">>
  /\ Texts(logs) \cap TeardownTexts = {}
  /\ Len(srcs) = 2
  /\ \A j \in DOMAIN srcs : srcs[j].st = "stopped"
  /\ sourcesRef = {}
  /\ nextStartTimeRef = 0

\* C4 (as claimed): the connection state changes only in onopen, onclose and
\* onerror.
C4_OnlySessionCallbacks ==
  [][Changed =>
       \E k \in Sessions :
         \/ \E throws \in BOOLEAN : OnOpen(k, throws)
         \/ OnClose(k)
         \/ OnError(k)]_vars

\* C4 (amended): the connection state changes only in handleConnect (at its
\* start and in its catch branch), in handleDisconnect and in onopen,
\* onclose and onerror; no other event changes it.
C4_StateChangers ==
  [][Changed =>
       \/ HandleConnect
       \/ HandleDisconnect
       \/ \E k \in Sessions :
            \/ MediaRejected(k)
            \/ SessionRejected(k)
            \/ \E throws \in BOOLEAN : OnOpen(k, throws)
            \/ OnClose(k)
            \/ OnError(k)]_vars

C4_Witness ==
  /\ connectionState = "DISCONNECTED"
  /\ LastText(logs) = <<"NotandiEndadi">>
  /\ \A k \in Sessions : ws[k] \in {"none", "connecting"}

\* C5: right after onerror, and right after the catch branch of
\* handleConnect, the connection state is ERROR, the session, stream, both
\* contexts, the processor and the output node are null, the in-flight set
\* is empty and the next-start-time scalar is 0.
C5_ErrorTearsDown ==
  [][(\E k \in Sessions : OnError(k) \/ MediaRejected(k) \/ SessionRejected(k))
     => /\ connectionState' = "ERROR"
        /\ sessionRef' = 0
        /\ mediaStreamRef' = 0
        /\ inputAudioContextRef' = 0
        /\ outputAudioContextRef' = 0
        /\ scriptProcessorRef' = 0
        /\ outputNodeRef' = 0
        /\ sourcesRef' = {}
        /\ nextStartTimeRef' = 0]_vars

C5_Witness ==
  /\ connectionState = "ERROR"
  /\ LastText(logs) = <<"Villa">>
  /\ \E j \in DOMAIN srcs : srcs[j].st = "stopped"
  /\ sessionRef = 0 /\ mediaStreamRef = 0 /\ inputAudioContextRef = 0
  /\ outputAudioContextRef = 0 /\ scriptProcessorRef = 0 /\ outputNodeRef = 0
  /\ sourcesRef = {} /\ nextStartTimeRef = 0

\* C6: the connection state is one of the four values and moves through them
\* in linear order: CONNECTING is entered only from DISCONNECTED or ERROR,
\* CONNECTED only from CONNECTING, DISCONNECTED and ERROR only from
\* CONNECTING or CONNECTED.
C6_LinearOrder ==
  [][/\ connectionState' \in ConnectionStates
     /\ Changed =>
          /\ connectionState' = "CONNECTING"
               => connectionState \in {"DISCONNECTED", "ERROR"}
          /\ connectionState' = "CONNECTED" => connectionState = "CONNECTING"
          /\ connectionState' \in {"DISCONNECTED", "ERROR"}
               => connectionState \in {"CONNECTING", "CONNECTED"}]_vars

\* C7: the in-flight set holds exactly the sources that were started and
\* have neither had their 'ended' event nor been stopped.
C7_InFlightExact ==
  sourcesRef = {i \in DOMAIN srcs : srcs[i].st = "playing"}

C7_Witness ==
  /\ sourcesRef # {}
  /\ \E i \in DOMAIN srcs : srcs[i].st = "ended" /\ i \notin sourcesRef
  /\ C7_InFlightExact

\* C8: the frames given to onaudioprocess of a session whose promise has
\* resolved have each been handed to its sendRealtimeInput once, in capture
\* order; nothing is handed over while the promise has not resolved.
C8_FramesOnceInOrder ==
  \A k \in Sessions :
    IF promise[k] = "resolved"
      THEN AudioFrames(sent[k]) = captured[k]
      ELSE AudioFrames(sent[k]) = <<>>

C8_Witness ==
  \E k \in Sessions :
    /\ promise[k] = "resolved"
    /\ Len(captured[k]) = 2
    /\ AudioFrames(sent[k]) = captured[k]

C10_NoStartAfterInterrupt ==
  \A i \in DOMAIN srcs : ~srcs[i].stale

\* C11: in every reachable state in which the connection state is
\* DISCONNECTED or ERROR, the microphone stream, both audio contexts and the
\* session reference are null, also when handleDisconnect or onclose ran
\* while handleConnect was suspended at an await.
C11_NoResourceWhenIdle ==
  connectionState \in {"DISCONNECTED", "ERROR"}
    => /\ mediaStreamRef = 0
       /\ inputAudioContextRef = 0
       /\ outputAudioContextRef = 0
       /\ sessionRef = 0

\* The teardowns so far were all handleDisconnect, so every session before
\* the newest one is a session the user has disconnected from.
OnlyUserDisconnects == Texts(logs) \cap TeardownTexts = {<<"NotandiEndadi">>}

\* C12: after handleDisconnect followed by a new handleConnect, an onopen,
\* onclose or onerror of the old session neither changes the connection
\* state nor tears down the resources of the new session.
C12_OldCallbacksInert ==
  [][\A k \in Sessions :
       (/\ k < nconn
        /\ OnlyUserDisconnects
        /\ \/ \E throws \in BOOLEAN : OnOpen(k, throws)
           \/ OnClose(k)
           \/ OnError(k))
       => /\ connectionState' = connectionState
          /\ inputAudioContextRef' = inputAudioContextRef
          /\ outputAudioContextRef' = outputAudioContextRef
          /\ mediaStreamRef' = mediaStreamRef
          /\ outputNodeRef' = outputNodeRef
          /\ sessionRef' = sessionRef]_vars

\* The handlers that call cleanup().
CallsCleanup ==
  \/ HandleDisconnect
  \/ \E k \in Sessions :
       OnClose(k) \/ OnError(k) \/ MediaRejected(k) \/ SessionRejected(k)

\* C13: cleanup, from any state, ends with the session, stream, input
\* context, output context, processor and output node references null, the
\* in-flight set empty, the next-start-time scalar 0, the volume 0 and the
\* text input empty; it leaves the connection state and the log alone: after
\* a handler that calls it they are what that handler itself sets (its one
\* state, its one log entry after the old log).
C13_CleanupPost ==
  [][CallsCleanup
     => /\ sessionRef' = 0
        /\ mediaStreamRef' = 0
        /\ inputAudioContextRef' = 0
        /\ outputAudioContextRef' = 0
        /\ scriptProcessorRef' = 0
        /\ outputNodeRef' = 0
        /\ sourcesRef' = {}
        /\ nextStartTimeRef' = 0
        /\ volume' = 0
        /\ textInput' = <<>>
        /\ \A j \in sourcesRef : srcs'[j].st = "stopped"
        /\ Len(logs') = Len(logs) + 1
        /\ IsPrefix(logs, logs')
        /\ LET e == logs'[Len(logs')]
           IN /\ e.type = "system"
              /\ HandleDisconnect
                   => e.text = <<"NotandiEndadi">>
                      /\ connectionState' = "DISCONNECTED"
              /\ (\E k \in Sessions : OnClose(k))
                   => e.text = <<"TenginguLokad">>
                      /\ connectionState' = "DISCONNECTED"
              /\ (\E k \in Sessions : OnError(k))
                   => e.text = <<"Villa">> /\ connectionState' = "ERROR"
              /\ (\E k \in Sessions : MediaRejected(k) \/ SessionRejected(k))
                   => e.text = <<"TengingMistokst">>
                      /\ connectionState' = "ERROR"]_vars

C13_Witness ==
  /\ LastText(logs) = <<"TenginguLokad">>
  /\ connectionState = "DISCONNECTED"
  /\ \E j \in DOMAIN srcs : srcs[j].st = "stopped"
  /\ \E k \in Sessions : \E i \in DOMAIN sent[k] : sent[k][i].kind = "text"
  /\ tap # {}
  /\ sessionRef = 0 /\ mediaStreamRef = 0 /\ inputAudioContextRef = 0
  /\ outputAudioContextRef = 0 /\ scriptProcessorRef = 0 /\ outputNodeRef = 0
  /\ sourcesRef = {} /\ nextStartTimeRef = 0
  /\ volume = 0 /\ textInput = <<>>

\* The entries logged by the handlers that set the connection state.
StateTexts ==
  TeardownTexts \cup {<<"Frumstilli">>, <<"TengingKomin">>}

\* handleDisconnect was the last handler to set the connection state.
SinceUserDisconnect ==
  \E i \in DOMAIN logs :
    /\ logs[i].text = <<"NotandiEndadi">>
    /\ \A j \in DOMAIN logs : j > i => logs[j].text \notin StateTexts

HandleDisconnectPost ==
  /\ connectionState' = "DISCONNECTED"
  /\ sessionRef' = 0 /\ mediaStreamRef' = 0 /\ inputAudioContextRef' = 0
  /\ outputAudioContextRef' = 0 /\ scriptProcessorRef' = 0
  /\ outputNodeRef' = 0 /\ sourcesRef' = {} /\ nextStartTimeRef' = 0
  /\ volume' = 0 /\ textInput' = <<>>
  /\ logs' = Append(logs, [type |-> "system", text |-> <<"NotandiEndadi">>])

\* C14: handleDisconnect, from CONNECTING or CONNECTED, performs the full
\* teardown of cleanup, leaves the connection state DISCONNECTED and appends
\* exactly one 'system' log entry; the connection state then stays
\* DISCONNECTED until the user calls handleConnect again.
C14_DisconnectStays ==
  [][/\ HandleDisconnect => HandleDisconnectPost
     /\ (SinceUserDisconnect /\ Changed) => HandleConnect]_vars

\* C15: the start time passed to source.start is never earlier than the
\* output context's current time at the moment of the call (so the scalar,
\* start + duration, is never behind the actual end of that buffer).
C15_StartNotInPast ==
  \A i \in DOMAIN srcs : srcs[i].start >= srcs[i].at

\* C16: audio buffers are started in the order in which their messages
\* arrived: of two audio messages with no interruption between them, the
\* buffer of the one received first gets a start time not later than the
\* other's.  Checked when the later of the two starts is made: against the
\* buffer of a later message that was started while this handler was
\* suspended at decodeAudioData, otherwise against the buffer started last.
C16_StartedInArrivalOrder ==
  [][\A i \in DOMAIN pend :
       DecodeDone(i) =>
         LET s == srcs'[Len(srcs')]
         IN /\ pend[i].over # 0 => s.start <= srcs[pend[i].over].start
            /\ (pend[i].over = 0 /\ s.chain)
                 => srcs[Len(srcs)].start <= s.start]_vars

\* C17: after a teardown (cleanup has run since the handleConnect that made
\* session k: the input context of k is no longer the held one) no captured
\* frame is handed to sendRealtimeInput of session k, a send queued on
\* sessionPromise.then included.
C17_NoFrameAfterTeardown ==
  [][\A k \in Sessions :
       (k <= nconn /\ inputAudioContextRef # k)
         => AudioFrames(sent'[k]) = AudioFrames(sent[k])]_vars

\* Text that is empty or holds only spaces.
AllSpaces(t) == \A i \in DOMAIN t : t[i] = " "
Spaces(n) == [i \in 1..n |-> " "]

\* r is t without its leading and trailing spaces.
IsTrimOf(r, t) ==
  /\ r # <<>> => r[1] # " " /\ r[Len(r)] # " "
  /\ \E a, b \in 0..Len(t) : t = Spaces(a) \o r \o Spaces(b)

\* C18: handleSendText is a no-op when the text input is empty or
\* whitespace-only or when no session reference is held: nothing is sent, no
\* log entry is appended and the text input is left unchanged.
C18_SendTextNoOp ==
  [][(HandleSendText /\ (AllSpaces(textInput) \/ sessionRef = 0))
     => UNCHANGED <<sent, logs, textInput>>]_vars

C18_Witness ==
  /\ connectionState = "CONNECTED"
  /\ sessionRef # 0
  /\ textInput = <<" ">>
  /\ ENABLED HandleSendText
  /\ \A k \in Sessions : sent[k] = <<>>
  /\ \A i \in DOMAIN logs : logs[i].type # "user"

\* C19: when the trimmed text input is non-empty and a session reference is
\* held, handleSendText appends exactly one 'user' log entry holding the
\* trimmed text, sends exactly one message to the held session whose single
\* text part is the trimmed text, and leaves the text input empty.
C19_SendTextSends ==
  [][(HandleSendText /\ ~AllSpaces(textInput) /\ sessionRef # 0)
     => \E a, b \in DOMAIN textInput :
          LET r == SubSeq(textInput, a, b)
          IN /\ r # <<>>
             /\ IsTrimOf(r, textInput)
             /\ logs' = Append(logs, [type |-> "user", text |-> r])
             /\ sent' = [sent EXCEPT ![sessionRef] =
                           Append(@, [kind |-> "text", frame |-> 0,
                                      text |-> r])]
             /\ textInput' = <<>>]_vars

C19_Witness ==
  /\ connectionState = "CONNECTED"
  /\ sessionRef # 0
  /\ textInput = <<>>
  /\ logs # <<>>
  /\ logs[Len(logs)] = [type |-> "user", text |-> <<"a">>]
  /\ sent[sessionRef] # <<>>
  /\ sent[sessionRef][Len(sent[sessionRef])] =
       [kind |-> "text", frame |-> 0, text |-> <<"a">>]

\* C20: every execution of the deferred reader.onload of handleImageUpload
\* finds the session reference non-null, whatever handleDisconnect, onclose
\* or onerror ran between the file selection and the end of the file read.
C20_ImageOnlyToLiveSession ==
  [][ReaderOnload => sessionRef # 0]_vars

\* C21: an audio message received while the output context or the output
\* node reference is null schedules nothing: no handler suspends at
\* decodeAudioData without both, no source is started, the in-flight set and
\* the scalar are left as they are by the audio part, and the turnComplete
\* and interrupted flags of the message are still handled (their log
\* entries, volume 0 on turnComplete, set emptied and scalar 0 on
\* interrupted).
C21_NullOutputSchedulesNothing ==
  [][/\ Len(pend') > Len(pend)
          => outputAudioContextRef # 0 /\ outputNodeRef # 0
     /\ \A k \in Sessions, m \in Messages :
          (/\ m.audio # 0
           /\ outputAudioContextRef = 0 \/ outputNodeRef = 0
           /\ OnMessagePlain(k, m))
          => /\ Len(srcs') = Len(srcs)
             /\ pend' = IF m.intr THEN MarkStale(pend) ELSE pend
             /\ ~m.intr => /\ srcs' = srcs
                           /\ sourcesRef' = sourcesRef
                           /\ nextStartTimeRef' = nextStartTimeRef
             /\ m.intr => sourcesRef' = {} /\ nextStartTimeRef' = 0
             /\ Len(logs') = Len(logs) + MsgLogs(m)
             /\ m.tc => /\ logs'[Len(logs) + 1].text = <<"SvariLokid">>
                        /\ volume' = 0
             /\ m.intr => logs'[Len(logs')].text = <<"GripidFramI">>]_vars

C21_Witness ==
  /\ outputAudioContextRef = 0 /\ outputNodeRef = 0
  /\ \E k \in Sessions : ws[k] = "open"
  /\ Len(logs) >= 2
  /\ logs[Len(logs) - 1].text \in TeardownTexts
  /\ LastText(logs) = <<"SvariLokid">>
  /\ srcs = <<>> /\ pend = <<>> /\ sourcesRef = {} /\ nextStartTimeRef = 0

\* What every turnComplete message without interrupted does: one 'system'
\* entry, volume 0, no source stopped, the connection state kept.
TurnCompleteEffect ==
  /\ logs' = Append(logs, [type |-> "system", text |-> <<"SvariLokid">>])
  /\ volume' = 0
  /\ \A j \in DOMAIN srcs : srcs'[j] = srcs[j]
  /\ connectionState' = connectionState

C23_ConnectingEnds ==
  (connectionState = "CONNECTING" /\ Len(logs) < MaxLog)
    ~> (connectionState # "CONNECTING" \/ Len(logs) = MaxLog)

C23_Witness ==
  /\ nconn = 2
  /\ connectionState = "CONNECTED"
  /\ ws[2] = "open"
  /\ promise[2] = "resolved"
  /\ LastText(logs) = <<"TengingKomin">>

\* C24: the visualizer volume (in hundredths) stays within 0 to 1 in every
\* reachable state, for every sequence of captured frames with rms in 0..1,
\* audio messages, turnComplete messages and teardowns.
C24_VolumeInRange ==
  volume >= 0 /\ volume <= 100

====
